---- MODULE Spec2Model ----
(***************************************************************************)
(* Nenufar: feed-forward neural network inference.                         *)
(*   blaf.rs        Matrix, gemv, apply_activation_function                *)
(*   topology.rs    Topology, TopologyBuilder                              *)
(*   neural_net.rs  NeuralNet::new, NeuralNet::predict                     *)
(* f64 values are modelled by integers (every value used is a small        *)
(* integer, on which f64 arithmetic is exact).  usize values are naturals. *)
(* Sequences are 1-based: Rust index i is TLA+ index i + 1.                *)
(***************************************************************************)
EXTENDS Integers, Sequences, FiniteSets, TLC

\* ---------------------------------------------------------------- bounds
\* largest width given to nb_input, nb_output and add_layer
MaxWidth == 2
\* largest number of add_layer calls on one builder
MaxLayers == 2
\* largest nb_rows / nb_cols given to Matrix::new directly
MaxDim == 4
\* largest length of the enumerated column vectors
MaxLen == 2

\* ------------------------------------------------------- external traits
\* The NumberGenerator implementations of the repository (its tests).
Generators == {"ZeroGenerator", "OneGenerator", "GemvGenerator"}

\* GemvGenerator returns this sequence whatever size is requested.
GemvSequence == <<1, 2, 3, 2, 2, 4, 3, 2, 2, 4, 2, 1>>

generate_vec(generator, size) ==
    CASE generator = "ZeroGenerator" -> [i \in 1..size |-> 0]
      [] generator = "OneGenerator" -> [i \in 1..size |-> 1]
      [] generator = "GemvGenerator" -> GemvSequence

\* The ActivationFunction implementations of the repository (its tests):
\* the identity of neural_net.rs and the rectifier with factor 2 of
\* topology.rs.
ActivationFunctions == {"Identity", "Factor2"}

activate(fun, v) ==
    CASE fun = "Identity" -> v
      [] fun = "Factor2" -> IF v > 0 THEN 2 * v ELSE 0

\* Values of the enumerated vectors, and the vectors the tests use.
Scalars == {-1, 2}

TestVectors == {<<1, 2>>, <<1, 2, 3>>, <<3, 2, 1>>, <<4, 5, 2, 3>>}

ColumnVectors ==
    UNION {[1..n -> Scalars] : n \in 0..MaxLen} \cup TestVectors

\* ------------------------------------------------------------------ blaf
RECURSIVE SumSeq(_)
SumSeq(s) == IF s = <<>> THEN 0 ELSE Head(s) + SumSeq(Tail(s))

Matrix_new(nb_rows, nb_cols, generator) ==
    [nb_rows |-> nb_rows,
     nb_columns |-> nb_cols,
     data |-> generate_vec(generator, nb_rows * nb_cols)]

ErrColumns == "Number of columns of matrix and size of first vector must be equal"
ErrRows == "Number of rows of matrix and size of second vector must be equal"

Ok(v) == [kind |-> "Ok", value |-> v, msg |-> ""]
Err(m) == [kind |-> "Err", value |-> <<>>, msg |-> m]
Panic == [kind |-> "Panic", value |-> <<>>, msg |-> ""]

\* mat.data[slice_lb..slice_ub] zipped with x, multiplied and summed.
RowDot(mat, x, index) ==
    LET slice_lb == index * mat.nb_columns
    IN  SumSeq([c \in 1..Len(x) |-> mat.data[slice_lb + c] * x[c]])

\* gemv with its two shape checks in the other order.
gemv_rows_first(mat, x, y) ==
    IF mat.nb_rows # Len(y) THEN Err(ErrRows)
    ELSE IF mat.nb_columns # Len(x) THEN Err(ErrColumns)
    ELSE IF \E index \in 0..(Len(y) - 1) :
                index * mat.nb_columns + mat.nb_columns > Len(mat.data)
         THEN Panic
    ELSE Ok([r \in 1..Len(y) |-> y[r] + RowDot(mat, x, r - 1)])

\* The slice mat.data[slice_lb..slice_ub] panics when slice_ub exceeds the
\* length of data.
gemv(mat, x, y) ==
    IF mat.nb_columns # Len(x) THEN Err(ErrColumns)
    ELSE IF mat.nb_rows # Len(y) THEN Err(ErrRows)
    ELSE IF \E index \in 0..(Len(y) - 1) :
                index * mat.nb_columns + mat.nb_columns > Len(mat.data)
         THEN Panic
    ELSE Ok([r \in 1..Len(y) |-> y[r] + RowDot(mat, x, r - 1)])

apply_activation_function(fun, x) ==
    [i \in 1..Len(x) |-> activate(fun, x[i])]

\* -------------------------------------------------------------- topology
ErrNoInput == "There is no input layer in your neural network"
ErrNoOutput == "There is no output layer in your neural network"
ErrNoHidden == "There is no hidden layer in your neural network"

TopologyBuilder_new ==
    [nb_input |-> 0,
     nb_output |-> 0,
     hidden_layer_dimensions |-> <<>>,
     activation_functions |-> <<>>]

NoTopology ==
    [kind |-> "None", msg |-> "",
     layer_dimensions |-> <<>>, activation_functions |-> <<>>]

TopologyErr(m) ==
    [kind |-> "Err", msg |-> m,
     layer_dimensions |-> <<>>, activation_functions |-> <<>>]

\* build with the check of the layers before the check of the input.
build_layers_first(self) ==
    IF self.nb_output = 0 THEN TopologyErr(ErrNoOutput)
    ELSE IF Len(self.hidden_layer_dimensions) = 0 THEN TopologyErr(ErrNoHidden)
    ELSE IF self.nb_input = 0 THEN TopologyErr(ErrNoInput)
    ELSE [kind |-> "Ok", msg |-> "",
          layer_dimensions |->
              <<self.nb_input>> \o self.hidden_layer_dimensions
                                \o <<self.nb_output>>,
          activation_functions |-> self.activation_functions]

build(self) ==
    IF self.nb_input = 0 THEN TopologyErr(ErrNoInput)
    ELSE IF self.nb_output = 0 THEN TopologyErr(ErrNoOutput)
    ELSE IF Len(self.hidden_layer_dimensions) = 0 THEN TopologyErr(ErrNoHidden)
    ELSE [kind |-> "Ok", msg |-> "",
          layer_dimensions |->
              <<self.nb_input>> \o self.hidden_layer_dimensions
                                \o <<self.nb_output>>,
          activation_functions |-> self.activation_functions]

\* ------------------------------------------------------------ neural_net
ErrInput == "Number of input are not consistent with topology of neural network"

NoNeuralNet == [weigths |-> <<>>, bias |-> <<>>, activation_functions |-> <<>>]

\* Topology's vector of layer widths, which NeuralNet::new reads as
\* topology.nb_neurons, is the field layer_dimensions of topology.rs.
NeuralNet_new(topo, random_gen) ==
    LET nb_layer == Len(topo.layer_dimensions)
    IN  [weigths |->
             [id \in 1..(nb_layer - 1) |->
                 Matrix_new(topo.layer_dimensions[id + 1],
                            topo.layer_dimensions[id], random_gen)],
         bias |->
             [id \in 1..(nb_layer - 1) |->
                 generate_vec(random_gen, topo.layer_dimensions[id + 1])],
         activation_functions |-> topo.activation_functions]

Outcome(r, n) ==
    [kind |-> r.kind, value |-> r.value, msg |-> r.msg, transitions |-> n]

\* The loop of predict from layer id on.  transitions records how many
\* layer transitions (gemv, then activation) were completed.  The ? operator
\* returns the Err of gemv before activation_functions[id] is indexed.
RECURSIVE predict_loop(_, _, _)
predict_loop(self, output, id) ==
    IF id > Len(self.weigths) THEN Outcome(Ok(output), id - 1)
    ELSE IF id > Len(self.bias) THEN Outcome(Panic, id - 1)
    ELSE LET neuron_inputs == gemv(self.weigths[id], output, self.bias[id])
         IN  IF neuron_inputs.kind # "Ok" THEN Outcome(neuron_inputs, id - 1)
             ELSE IF id > Len(self.activation_functions)
                  THEN Outcome(Panic, id - 1)
             ELSE predict_loop(
                      self,
                      apply_activation_function(
                          self.activation_functions[id], neuron_inputs.value),
                      id + 1)

\* predict rejecting only an input that is too short.
predict_short_only(self, input) ==
    IF Len(self.weigths) = 0 THEN Outcome(Panic, 0)
    ELSE IF Len(input) < self.weigths[1].nb_columns THEN Outcome(Err(ErrInput), 0)
    ELSE IF Len(self.bias) = 0 THEN Outcome(Panic, 0)
    ELSE predict_loop(self, input, 1)

predict(self, input) ==
    IF Len(self.weigths) = 0 THEN Outcome(Panic, 0)
    ELSE IF Len(input) # self.weigths[1].nb_columns THEN Outcome(Err(ErrInput), 0)
    ELSE IF Len(self.bias) = 0 THEN Outcome(Panic, 0)
    ELSE predict_loop(self, input, 1)

\* predict keeping its running vector in the first bias of the network.
predict_self_reuses_bias(self, input) ==
    IF Len(self.bias) = 0 THEN self
    ELSE [self EXCEPT !.bias[1] = input]

\* The NeuralNet after predict(&self, input): predict holds a shared borrow
\* and assigns to no field of self (its running vector, output, is a local).
predict_self(self, input) == self

NoPrediction == [kind |-> "None", value |-> <<>>, msg |-> "", transitions |-> 0]

\* ----------------------------------------------------------------- state
VARIABLES
    pc,          \* "builder", "topology", "net", "predicted"
    builder,     \* the TopologyBuilder (as it was when build consumed it)
    topology,    \* the Result<Topology, String> of build
    generator,   \* the NumberGenerator given to NeuralNet::new
    neural_net,  \* the NeuralNet
    input,       \* the argument of the last predict
    prediction,  \* the Result of the last predict
    bpc,         \* blaf: "start", "matrix", "vectors", "gemv"
    mat,         \* blaf: the Matrix of Matrix::new
    mat_gen,     \* blaf: the generator given to Matrix::new
    vec_x,       \* blaf: first vector
    vec_y,       \* blaf: second vector
    vec_res      \* blaf: the Result of gemv

pipeline_vars == <<pc, builder, topology, generator, neural_net, input, prediction>>
blaf_vars == <<bpc, mat, mat_gen, vec_x, vec_y, vec_res>>
vars == <<pipeline_vars, blaf_vars>>

NoMatrix == [nb_rows |-> 0, nb_columns |-> 0, data |-> <<>>]
NoResult == [kind |-> "None", value |-> <<>>, msg |-> ""]

Init ==
    /\ pc = "builder"
    /\ builder = TopologyBuilder_new
    /\ topology = NoTopology
    /\ generator = "ZeroGenerator"
    /\ neural_net = NoNeuralNet
    /\ input = <<>>
    /\ prediction = NoPrediction
    /\ bpc = "start"
    /\ mat = NoMatrix
    /\ mat_gen = "ZeroGenerator"
    /\ vec_x = <<>>
    /\ vec_y = <<>>
    /\ vec_res = NoResult

\* ------------------------------------------------ actions: the pipeline
NbInput(n) ==
    /\ pc = "builder"
    /\ builder' = [builder EXCEPT !.nb_input = n]
    /\ UNCHANGED <<pc, topology, generator, neural_net, input, prediction, blaf_vars>>

NbOutput(n) ==
    /\ pc = "builder"
    /\ builder' = [builder EXCEPT !.nb_output = n]
    /\ UNCHANGED <<pc, topology, generator, neural_net, input, prediction, blaf_vars>>

AddLayer(nb_neuron, activation_function) ==
    /\ pc = "builder"
    /\ Len(builder.hidden_layer_dimensions) < MaxLayers
    /\ builder' =
           [builder EXCEPT
               !.hidden_layer_dimensions = Append(@, nb_neuron),
               !.activation_functions = Append(@, activation_function)]
    /\ UNCHANGED <<pc, topology, generator, neural_net, input, prediction, blaf_vars>>

Build ==
    /\ pc = "builder"
    /\ topology' = build(builder)
    /\ pc' = "topology"
    /\ UNCHANGED <<builder, generator, neural_net, input, prediction, blaf_vars>>

New(random_gen) ==
    /\ pc = "topology"
    /\ topology.kind = "Ok"
    /\ neural_net' = NeuralNet_new(topology, random_gen)
    /\ generator' = random_gen
    /\ pc' = "net"
    /\ UNCHANGED <<builder, topology, input, prediction, blaf_vars>>

Predict(v) ==
    /\ pc \in {"net", "predicted"}
    /\ input' = v
    /\ prediction' = predict(neural_net, v)
    /\ neural_net' = predict_self(neural_net, v)
    /\ pc' = "predicted"
    /\ UNCHANGED <<builder, topology, generator, blaf_vars>>

Next ==
    \/ \E n \in 0..MaxWidth : NbInput(n)
    \/ \E n \in 0..MaxWidth : NbOutput(n)
    \/ \E n \in 0..MaxWidth, f \in ActivationFunctions : AddLayer(n, f)
    \/ Build
    \/ \E g \in Generators : New(g)
    \/ \E v \in ColumnVectors : Predict(v)

Spec == Init /\ [][Next]_vars

\* ----------------------------------------------------- actions: blaf
MatrixNew(nb_rows, nb_cols, g) ==
    /\ bpc = "start"
    /\ mat' = Matrix_new(nb_rows, nb_cols, g)
    /\ mat_gen' = g
    /\ bpc' = "matrix"
    /\ UNCHANGED <<vec_x, vec_y, vec_res, pipeline_vars>>

Vectors(x, y) ==
    /\ bpc = "matrix"
    /\ vec_x' = x
    /\ vec_y' = y
    /\ bpc' = "vectors"
    /\ UNCHANGED <<mat, mat_gen, vec_res, pipeline_vars>>

Gemv ==
    /\ bpc = "vectors"
    /\ vec_res' = gemv(mat, vec_x, vec_y)
    /\ bpc' = "gemv"
    /\ UNCHANGED <<mat, mat_gen, vec_x, vec_y, pipeline_vars>>

NextBlaf ==
    \/ \E r \in 0..MaxDim, c \in 0..MaxDim, g \in Generators : MatrixNew(r, c, g)
    \/ \E x \in ColumnVectors, y \in ColumnVectors : Vectors(x, y)
    \/ Gemv

SpecBlaf == Init /\ [][NextBlaf]_vars

\* ================================================================ claims
layer_dimensions == topology.layer_dimensions

\* Every generate_vec call of NeuralNet::new returned as many values as it
\* was asked for.
GeneratedAsRequested ==
    \A id \in 1..(Len(layer_dimensions) - 1) :
        /\ Len(generate_vec(generator, layer_dimensions[id + 1] * layer_dimensions[id]))
               = layer_dimensions[id + 1] * layer_dimensions[id]
        /\ Len(generate_vec(generator, layer_dimensions[id + 1]))
               = layer_dimensions[id + 1]

\* Every width of the built Topology is at least 1.
WidthsAtLeastOne ==
    \A i \in 1..Len(layer_dimensions) : layer_dimensions[i] >= 1

\* C1: once build() has run on a builder with input width n > 0 and k >= 1
\* added layers (w1,f1)..(wk,fk), the result is a Topology whose widths are
\* exactly [n, w1..wk] and whose activation functions are [f1..fk], so there
\* is one activation function fewer than widths and at least two widths.
C1_BuildYieldsAddedLayers ==
    (/\ pc # "builder"
     /\ builder.nb_input > 0
     /\ Len(builder.hidden_layer_dimensions) >= 1)
    => /\ topology.kind = "Ok"
       /\ topology.layer_dimensions
              = <<builder.nb_input>> \o builder.hidden_layer_dimensions
       /\ topology.activation_functions = builder.activation_functions
       /\ Len(topology.activation_functions) = Len(topology.layer_dimensions) - 1
       /\ Len(topology.layer_dimensions) >= 2

\* C2: every width of a Topology that build() returned is at least 1.
C2_WidthsPositive ==
    topology.kind = "Ok"
    => \A i \in 1..Len(topology.layer_dimensions) :
           topology.layer_dimensions[i] >= 1

\* C3: build() returns an error and no Topology when the input width is
\* unset or zero and when no layer was added; the input check comes first,
\* so with both missing the error is the missing-input one, and a
\* missing-layer error is only reported with a non-zero input width.
C3_BuildErrors ==
    pc # "builder"
    => /\ (builder.nb_input = 0 \/ Len(builder.hidden_layer_dimensions) = 0)
              => /\ topology.kind = "Err"
                 /\ topology.layer_dimensions = <<>>
                 /\ topology.activation_functions = <<>>
       /\ builder.nb_input = 0 => topology.msg = ErrNoInput
       /\ (builder.nb_input # 0 /\ Len(builder.hidden_layer_dimensions) = 0)
              => topology.msg \in {ErrNoOutput, ErrNoHidden}
       /\ topology.msg \in {ErrNoOutput, ErrNoHidden} => builder.nb_input # 0

\* build() ran with neither an input width nor a layer and reported the
\* missing input.
C3_Witness ==
    /\ pc = "topology"
    /\ builder.nb_input = 0
    /\ builder.nb_output = 0
    /\ Len(builder.hidden_layer_dimensions) = 0
    /\ topology.kind = "Err"
    /\ topology.msg = ErrNoInput

\* C4: a NeuralNet made from a built Topology (widths at least 1) with a
\* generator that returned what was asked has, with L = number of widths - 1, L weight matrices, L
\* bias vectors and L activation functions, and matrix i has as many columns
\* as width i and as many rows as width i+1, which is the length of bias i.
C4_NetShapes ==
    (pc \in {"net", "predicted"} /\ WidthsAtLeastOne /\ GeneratedAsRequested)
    => LET L == Len(layer_dimensions) - 1
       IN  /\ Len(neural_net.weigths) = L
           /\ Len(neural_net.bias) = L
           /\ Len(neural_net.activation_functions) = L
           /\ \A i \in 1..L :
                  /\ neural_net.weigths[i].nb_columns = layer_dimensions[i]
                  /\ neural_net.weigths[i].nb_rows = layer_dimensions[i + 1]
                  /\ Len(neural_net.bias[i]) = layer_dimensions[i + 1]

\* C5: on a NeuralNet made from a built Topology (widths at least 1) with a
\* generator that returned what was asked, predict on an input of the input width completes
\* every layer transition and returns a result: no ShapeMismatch, no abort.
C5_PredictCompletes ==
    (/\ pc = "predicted"
     /\ WidthsAtLeastOne
     /\ GeneratedAsRequested
     /\ Len(input) = layer_dimensions[1])
    => /\ prediction.kind = "Ok"
       /\ prediction.transitions = Len(layer_dimensions) - 1

\* The sequential fold of C6: a_(i+1)[r] = f_i(bias_i[r] + sum_c W_i[r,c]*a_i[c]).
RECURSIVE WeightedSum(_, _, _, _)
WeightedSum(m, a, r, c) ==
    IF c = 0 THEN 0
    ELSE m.data[(r - 1) * m.nb_columns + c] * a[c] + WeightedSum(m, a, r, c - 1)

RECURSIVE ForwardFold(_, _)
ForwardFold(a, i) ==
    IF i > Len(neural_net.weigths) THEN a
    ELSE ForwardFold(
             [r \in 1..Len(neural_net.bias[i]) |->
                 activate(neural_net.activation_functions[i],
                          neural_net.bias[i][r]
                              + WeightedSum(neural_net.weigths[i], a, r, Len(a)))],
             i + 1)

\* C6: on a NeuralNet made from a built Topology (widths at least 1) with a
\* generator that returned what was asked, predict on an input of the input
\* width returns the result of the
\* sequential fold over all layer transitions, of the length of the last
\* width; with identity activation and the all-ones generator, input width 2
\* and one layer of width 1 give predict([1,2]) = [4], and layers of width 2
\* then 1 give predict([1,2]) = [9].
C6_PredictIsFold ==
    (/\ pc = "predicted"
     /\ WidthsAtLeastOne
     /\ GeneratedAsRequested
     /\ Len(input) = layer_dimensions[1])
    => /\ prediction.kind = "Ok"
       /\ prediction.value = ForwardFold(input, 1)
       /\ Len(prediction.value) = layer_dimensions[Len(layer_dimensions)]
       /\ (/\ generator = "OneGenerator"
           /\ input = <<1, 2>>
           /\ builder.nb_input = 2
           /\ builder.hidden_layer_dimensions = <<1>>
           /\ builder.activation_functions = <<"Identity">>)
              => prediction.value = <<4>>
       /\ (/\ generator = "OneGenerator"
           /\ input = <<1, 2>>
           /\ builder.nb_input = 2
           /\ builder.hidden_layer_dimensions = <<2, 1>>
           /\ builder.activation_functions = <<"Identity", "Identity">>)
              => prediction.value = <<9>>

\* C7: predict returns the input-mismatch error, with no output vector and
\* no layer transition evaluated, exactly when the length of the input
\* differs from the input width (the number of columns of the first matrix).
C7_InputMismatch ==
    pc = "predicted"
    => /\ neural_net.weigths[1].nb_columns = layer_dimensions[1]
       /\ (Len(input) # layer_dimensions[1])
              <=> (prediction.kind = "Err" /\ prediction.msg = ErrInput)
       /\ (Len(input) # layer_dimensions[1])
              => (prediction.value = <<>> /\ prediction.transitions = 0)

\* predict was given an input longer than the input width and returned the
\* input-mismatch error.
C7_Witness ==
    /\ pc = "predicted"
    /\ Len(input) > layer_dimensions[1]
    /\ prediction.kind = "Err"
    /\ prediction.msg = ErrInput

\* C8: gemv returns the columns error whenever the columns differ from the
\* length of x (also when the rows differ from the length of y), the rows
\* error when the columns match and the rows differ from the length of y, and
\* a result vector only when both match.
C8_GemvShapeErrors ==
    bpc = "gemv"
    => /\ mat.nb_columns # Len(vec_x) => vec_res = Err(ErrColumns)
       /\ (mat.nb_columns = Len(vec_x) /\ mat.nb_rows # Len(vec_y))
              => vec_res = Err(ErrRows)
       /\ vec_res.kind = "Ok"
              => (mat.nb_columns = Len(vec_x) /\ mat.nb_rows = Len(vec_y))

\* gemv was called with both shapes wrong and returned the columns error.
C8_Witness ==
    /\ bpc = "gemv"
    /\ mat.nb_columns # Len(vec_x)
    /\ mat.nb_rows # Len(vec_y)
    /\ vec_res = Err(ErrColumns)

\* C9: for every shape-compatible matrix, x and y, gemv returns a vector of
\* the length of y whose component r is y[r] + sum_c data[r*nb_columns + c]*x[c];
\* the 4x3 matrix of [1,2,3, 2,2,4, 3,2,2, 4,2,1] with x = [3,2,1] and
\* y = [4,5,2,3] gives [14,19,17,20].
C9_GemvAffine ==
    (/\ bpc = "gemv"
     /\ mat.nb_columns = Len(vec_x)
     /\ mat.nb_rows = Len(vec_y))
    => /\ vec_res.kind = "Ok"
       /\ Len(vec_res.value) = Len(vec_y)
       /\ \A r \in 1..Len(vec_y) :
              vec_res.value[r] = vec_y[r] + WeightedSum(mat, vec_x, r, Len(vec_x))
       /\ (/\ mat = [nb_rows |-> 4, nb_columns |-> 3, data |-> GemvSequence]
           /\ vec_x = <<3, 2, 1>>
           /\ vec_y = <<4, 5, 2, 3>>)
              => vec_res.value = <<14, 19, 17, 20>>

\* C10: every Matrix that Matrix::new returned holds nb_rows*nb_columns
\* values, whatever the generator returned.
C10_MatrixDataLength ==
    bpc # "start" => Len(mat.data) = mat.nb_rows * mat.nb_columns

====
